---- MODULE Spec2Model ----
(***************************************************************************)
(* Model of frontend/qnn_torch.py: the conversion of a traced graph of     *)
(* quantized operators into the affine-quantization IR.                    *)
(*                                                                         *)
(* Real numbers (scales, scalars) are exact rationals <<num, den>> with    *)
(* den > 0 in lowest terms; Python floats are modelled by their exact      *)
(* value.  Zero points are integers, stored as <<z, 1>> when they are the  *)
(* value of a constant node.                                               *)
(***************************************************************************)
EXTENDS Integers, Sequences, FiniteSets, TLC

VARIABLES
    nodes,      \* the graph: node id -> [kind, inputs, value]
    order,      \* graph.nodes(): the node ids in topological order
    nodes0,     \* the graph as traced, before any mutation
    phase,      \* "traced", "materialized", "converting", "failed"; "resolving", "calls"
    passes,     \* number of completed Materializer passes
    err,        \* the fatal error that ended the conversion, or "none"
    errNode,    \* the node the Materializer was visiting when it failed
    conv,       \* node id -> result of the node's conversion function
    cpos,       \* position in order of the last converted node
    res,        \* one run of the Producer Resolver, step by step
    call        \* one call of a pure function: [fn, arg, out]

vars == <<nodes, order, nodes0, phase, passes, err, errNode, conv, cpos, res, call>>

----------------------------------------------------------------------------
(* Exact rational arithmetic *)

Abs(i) == IF i < 0 THEN -i ELSE i

RECURSIVE GCD(_, _)
GCD(a, b) == IF b = 0 THEN a ELSE GCD(b, a % b)

RNorm(n, d) ==
    LET s == IF d < 0 THEN -1 ELSE 1
        g == GCD(Abs(n), Abs(d))
    IN  <<(s * n) \div g, (s * d) \div g>>

RInt(i) == <<i, 1>>
RMul(a, b) == RNorm(a[1] * b[1], a[2] * b[2])
RDiv(a, b) == RNorm(a[1] * b[2], a[2] * b[1])
RAdd(a, b) == RNorm(a[1] * b[2] + b[1] * a[2], a[2] * b[2])
RSub(a, b) == RNorm(a[1] * b[2] - b[1] * a[2], a[2] * b[2])
RLess(a, b) == a[1] * b[2] < b[1] * a[2]
RPos(a) == a[1] > 0

\* Python 3 round(x): to the nearest integer, ties to the even one.
PyRound(a) ==
    LET f == a[1] \div a[2]
        r == a[1] - f * a[2]
    IN  IF 2 * r < a[2] THEN f
        ELSE IF 2 * r > a[2] THEN f + 1
        ELSE IF f % 2 = 0 THEN f ELSE f + 1

----------------------------------------------------------------------------
(* Operator kinds and the two tables of the frontend *)

\* get_quant_param_for_input: kind -> (scale index, zero-point index), 0-based
output_quant_param_indices ==
    [k \in {"aten::quantize_per_tensor"} |-> <<1, 2>>] @@
    [k \in {"quantized::conv2d", "quantized::conv2d_relu"} |-> <<6, 7>>] @@
    [k \in {"quantized::linear", "quantized::linear_relu",
            "quantized::add_relu", "quantized::add",
            "quantized::mul_relu", "quantized::mul",
            "quantized::cat",
            "quantized::mul_scalar", "quantized::add_scalar"} |-> <<2, 3>>]

\* add_input_quant_params_to_op_inputs: kind -> number of quantized inputs
num_quantized_inputs ==
    [k \in {"quantized::conv2d", "quantized::conv2d_relu",
            "quantized::linear", "quantized::linear_relu",
            "aten::dequantize", "aten::mean", "aten::relu_", "aten::relu",
            "quantized::add_scalar", "quantized::mul_scalar",
            "quantized::relu6"} |-> 1] @@
    [k \in {"quantized::add_relu", "quantized::add",
            "quantized::mul_relu", "quantized::mul"} |-> 2]

\* the set without the separately added concatenation
need_input_quant_param_no_cat == DOMAIN num_quantized_inputs

need_input_quant_param == (DOMAIN num_quantized_inputs) \cup {"quantized::cat"}

ScalarOps == {"quantized::add_scalar", "quantized::mul_scalar"}

----------------------------------------------------------------------------
(* The Producer Resolver *)

\* dfs following the last input of a node instead of the first
dfsStepLastInput(g, n) ==
    LET current_op == g[n].kind
        ins == g[n].inputs
    IN  IF current_op \in DOMAIN output_quant_param_indices
        THEN LET indices == output_quant_param_indices[current_op]
             IN  IF indices[1] < Len(ins) /\ indices[2] < Len(ins)
                 THEN [tag |-> "return", scale |-> ins[indices[1] + 1],
                       zp |-> ins[indices[2] + 1], node |-> n]
                 ELSE [tag |-> "IndexError", scale |-> 0, zp |-> 0, node |-> n]
        ELSE IF Len(ins) > 0
             THEN [tag |-> "recurse", scale |-> 0, zp |-> 0, node |-> ins[Len(ins)]]
             ELSE [tag |-> "NoProducer", scale |-> 0, zp |-> 0, node |-> n]

\* dfs following the second input of a node that has one
dfsStepLaterInput(g, n) ==
    LET current_op == g[n].kind
        ins == g[n].inputs
    IN  IF current_op \in DOMAIN output_quant_param_indices
        THEN LET indices == output_quant_param_indices[current_op]
             IN  IF indices[1] < Len(ins) /\ indices[2] < Len(ins)
                 THEN [tag |-> "return", scale |-> ins[indices[1] + 1],
                       zp |-> ins[indices[2] + 1], node |-> n]
                 ELSE [tag |-> "IndexError", scale |-> 0, zp |-> 0, node |-> n]
        ELSE IF Len(ins) > 1
             THEN [tag |-> "recurse", scale |-> 0, zp |-> 0, node |-> ins[2]]
             ELSE IF Len(ins) > 0
             THEN [tag |-> "recurse", scale |-> 0, zp |-> 0, node |-> ins[1]]
             ELSE [tag |-> "NoProducer", scale |-> 0, zp |-> 0, node |-> n]

\* One activation of dfs(current_node): return the operands, recurse into the
\* producer of the first input, or fail.  inputsAt(i) raises when i is not an
\* index of the node's inputs.
dfsStep(g, n) ==
    LET current_op == g[n].kind
        ins == g[n].inputs
    IN  IF current_op \in DOMAIN output_quant_param_indices
        THEN LET indices == output_quant_param_indices[current_op]
             IN  IF indices[1] < Len(ins) /\ indices[2] < Len(ins)
                 THEN [tag |-> "return", scale |-> ins[indices[1] + 1],
                       zp |-> ins[indices[2] + 1], node |-> n]
                 ELSE [tag |-> "IndexError", scale |-> 0, zp |-> 0, node |-> n]
        ELSE IF Len(ins) > 0
             THEN [tag |-> "recurse", scale |-> 0, zp |-> 0, node |-> ins[1]]
             ELSE [tag |-> "NoProducer", scale |-> 0, zp |-> 0, node |-> n]

RECURSIVE dfs(_, _)
dfs(g, n) ==
    LET s == dfsStep(g, n)
    IN  IF s.tag = "recurse" THEN dfs(g, s.node) ELSE s

\* input_value is an edge; with one output per node it is named by the id of
\* the node that produces it.
get_quant_param_for_input(g, input_value) == dfs(g, input_value)

----------------------------------------------------------------------------
(* Output quantization parameters of the scalar operators *)

q_min == 0
q_max == 255

\* the rescaling below q_min with the sign of the shift lost
get_add_scalar_output_quant_param_sign(input_scale, input_zero_point, scalar) ==
    LET s == input_scale
        z == input_zero_point
        c_q == PyRound(RDiv(scalar, s))
    IN  IF q_min > z - c_q
        THEN [scale |-> RMul(RDiv(RInt(q_max + (z - c_q)), RInt(q_max - q_min)), s),
              zero_point |-> q_min]
        ELSE IF q_max < z - c_q
        THEN [scale |-> RMul(RDiv(RInt((z - c_q) - q_min), RInt(q_max - q_min)), s),
              zero_point |-> q_max]
        ELSE [scale |-> s, zero_point |-> z - c_q]

\* refer to aten/src/ATen/native/quantized/cpu/qadd.cpp
get_add_scalar_output_quant_param(input_scale, input_zero_point, scalar) ==
    LET s == input_scale
        z == input_zero_point
        c_q == PyRound(RDiv(scalar, s))
    IN  IF q_min > z - c_q
        THEN [scale |-> RMul(RDiv(RInt(q_max - (z - c_q)), RInt(q_max - q_min)), s),
              zero_point |-> q_min]
        ELSE IF q_max < z - c_q
        THEN [scale |-> RMul(RDiv(RInt((z - c_q) - q_min), RInt(q_max - q_min)), s),
              zero_point |-> q_max]
        ELSE [scale |-> s, zero_point |-> z - c_q]

\* the dispatch taking the add_scalar branch for both kinds
scalar_op_output_always_add(operator, input_scale, input_zero_point, scalar) ==
    get_add_scalar_output_quant_param(input_scale, input_zero_point, scalar)

\* Output parameters by operator kind (the first half of
\* add_output_quant_params_to_scalar_op).
scalar_op_output_quant_param(operator, input_scale, input_zero_point, scalar) ==
    IF operator = "quantized::mul_scalar"
    THEN [scale |-> RMul(input_scale, scalar), zero_point |-> input_zero_point]
    ELSE get_add_scalar_output_quant_param(input_scale, input_zero_point, scalar)

Const(v) == [kind |-> "prim::Constant", inputs |-> <<>>, value |-> v]

addInput(g, n, v) == [g EXCEPT ![n].inputs = Append(@, v)]

\* lst with the items xs inserted right before its element n
insertBefore(lst, xs, n) ==
    LET i == CHOOSE j \in 1..Len(lst) : lst[j] = n
    IN  SubSeq(lst, 1, i - 1) \o xs \o SubSeq(lst, i, Len(lst))

\* Creates the two constant nodes, inserts them before the node and appends
\* their outputs to the node's inputs: scale first, zero point second.
add_output_quant_params_to_scalar_op(g, ord, n, input_scale, input_zero_point, scalar) ==
    IF g[n].kind \notin ScalarOps
    THEN [nodes |-> g, order |-> ord, status |-> "AssertionError"]
    ELSE
    LET out == scalar_op_output_quant_param(g[n].kind, input_scale,
                                            input_zero_point, scalar)
        out_scale_node == Len(g) + 1
        out_zero_point_node == Len(g) + 2
        g1 == g \o <<Const(out.scale), Const(RInt(out.zero_point))>>
    IN  [nodes |-> addInput(addInput(g1, n, out_scale_node), n, out_zero_point_node),
         order |-> insertBefore(ord, <<out_scale_node, out_zero_point_node>>, n),
         status |-> "ok"]

----------------------------------------------------------------------------
(* The Metadata Materializer *)

\* The edges whose quantization parameters the node needs, in input order.
quantized_inputs(g, n) ==
    IF g[n].kind = "quantized::cat"
    THEN g[g[n].inputs[1]].inputs
    ELSE [i \in 1..num_quantized_inputs[g[n].kind] |->
            IF i <= Len(g[n].inputs) THEN g[n].inputs[i] ELSE 0]

\* the pairs appended zero point first
RECURSIVE appendPairsZeroPointFirst(_, _, _)
appendPairsZeroPointFirst(g, n, pairs) ==
    IF pairs = <<>> THEN g
    ELSE appendPairsZeroPointFirst(
             addInput(addInput(g, n, Head(pairs).zp), n, Head(pairs).scale),
             n, Tail(pairs))

\* the assertion on the scalar left out
scalar_unchecked(scalar) == TRUE

\* assert scalar > 0.0, "only positive scalar supported"
only_positive_scalar_supported(scalar) == RPos(scalar)

\* for scale, zp in zip(input_scales, input_zero_points): addInput, addInput
RECURSIVE appendPairs(_, _, _)
appendPairs(g, n, pairs) ==
    IF pairs = <<>> THEN g
    ELSE appendPairs(addInput(addInput(g, n, Head(pairs).scale), n, Head(pairs).zp),
                     n, Tail(pairs))

\* The body of the loop of add_input_quant_params_to_op_inputs for one node.
materialize_node(g, ord, n) ==
    LET operator == g[n].kind
        same == [nodes |-> g, order |-> ord, status |-> "ok"]
    IN  IF operator \notin need_input_quant_param THEN same
        ELSE
        LET qin == quantized_inputs(g, n)
            found == [i \in 1..Len(qin) |->
                        IF qin[i] = 0
                        THEN [tag |-> "IndexError", scale |-> 0, zp |-> 0, node |-> n]
                        ELSE get_quant_param_for_input(g, qin[i])]
            bad == {i \in 1..Len(qin) : found[i].tag # "return"}
        IN  IF bad # {}
            THEN [same EXCEPT !.status = found[CHOOSE i \in bad : \A j \in bad : i <= j].tag]
            ELSE IF operator \in ScalarOps
            THEN LET scalar == g[g[n].inputs[2]].value
                     inp_scale == g[found[1].scale].value
                     inp_zero_point == g[found[1].zp].value[1]
                 IN  IF ~only_positive_scalar_supported(scalar)
                     THEN [same EXCEPT !.status = "AssertionError"]
                     ELSE LET r == add_output_quant_params_to_scalar_op(
                                       g, ord, n, inp_scale, inp_zero_point, scalar)
                          IN  [r EXCEPT !.nodes = appendPairs(r.nodes, n, found)]
            ELSE [same EXCEPT !.nodes = appendPairs(g, n, found)]

\* for node in graph.nodes(): from position i of the node list to its end.  A
\* failure ends the pass and leaves the graph as mutated so far.
RECURSIVE materialize_from(_, _, _)
materialize_from(g, ord, i) ==
    IF i > Len(ord)
    THEN [nodes |-> g, order |-> ord, status |-> "ok", node |-> 0]
    ELSE LET r == materialize_node(g, ord, ord[i])
         IN  IF r.status # "ok"
             THEN [nodes |-> r.nodes, order |-> r.order, status |-> r.status,
                   node |-> ord[i]]
             ELSE materialize_from(r.nodes, r.order,
                                   i + 1 + (Len(r.order) - Len(ord)))

add_input_quant_params_to_op_inputs(g, ord) == materialize_from(g, ord, 1)

----------------------------------------------------------------------------
(* Traced graphs.  Node 1 is the graph input, nodes 2..7 are the constants  *)
(* the operators share, node 8 produces the first tensor (a quantize, or a  *)
(* float operator), and then follow up to MaxOps operators, each taking the *)
(* previous tensor as its first input and tensor 8 as its second one.       *)

MaxOps == 2

OutScale == <<1, 5>>
OutZeroPoint == <<10, 1>>
InScales == {<<1, 10>>}
InZeroPoints == {0, 250}
Scalars == {<<3, 1>>, <<1, 4>>, <<-1, 1>>}

OtherKind == "aten::view"
\* a float operator whose first operand is the graph input and whose second
\* operand is the previous tensor
FloatBinaryKind == "aten::mul"
FirstKinds == {"aten::quantize_per_tensor", OtherKind}
OpKinds ==
    {"aten::quantize_per_tensor", "aten::dequantize", "aten::mean", "aten::relu",
     "aten::relu_", "quantized::conv2d", "quantized::conv2d_relu",
     "quantized::linear", "quantized::linear_relu", "quantized::add",
     "quantized::add_relu", "quantized::mul", "quantized::mul_relu",
     "quantized::cat", "quantized::add_scalar", "quantized::mul_scalar",
     "quantized::relu6", OtherKind, FloatBinaryKind}

Node(k, ins) == [kind |-> k, inputs |-> ins, value |-> <<0, 1>>]

\* The nodes the tracer emits for one operator of kind k applied to tensor x
\* (and tensor y), when the graph has `len` nodes so far.
traced_op(k, x, y, len) ==
    CASE k = "aten::quantize_per_tensor" -> <<Node(k, <<x, 2, 3, 7>>)>>
      [] k = "aten::dequantize" -> <<Node(k, <<x>>)>>
      [] k \in {"quantized::conv2d", "quantized::conv2d_relu"} ->
            <<Node(k, <<x, 7, 7, 7, 7, 7, 5, 6>>)>>
      [] k \in {"quantized::linear", "quantized::linear_relu"} ->
            <<Node(k, <<x, 7, 5, 6>>)>>
      [] k \in {"quantized::add", "quantized::add_relu",
                "quantized::mul", "quantized::mul_relu"} ->
            <<Node(k, <<x, y, 5, 6>>)>>
      [] k = "quantized::cat" ->
            <<Node("prim::ListConstruct", <<x, y>>), Node(k, <<len + 1, 7, 5, 6>>)>>
      [] k \in ScalarOps -> <<Node(k, <<x, 4>>)>>
      [] k = "quantized::relu6" -> <<Node(k, <<x, 7>>)>>
      [] k = "aten::mean" -> <<Node(k, <<x, 7, 7, 7>>)>>
      [] k \in {"aten::relu", "aten::relu_"} -> <<Node(k, <<x>>)>>
      [] k = FloatBinaryKind -> <<Node(k, <<1, x>>)>>
      [] OTHER -> <<Node(k, <<x, 7>>)>>

preamble(s0, z0, c, k0) ==
    <<Node("prim::Param", <<>>), Const(s0), Const(RInt(z0)), Const(c),
      Const(OutScale), Const(OutZeroPoint), Const(<<1, 1>>)>>
    \o traced_op(k0, 1, 1, 7)

RECURSIVE traced_graph(_, _)
traced_graph(g, kinds) ==
    IF kinds = <<>> THEN g
    ELSE traced_graph(g \o traced_op(Head(kinds), Len(g), 8, Len(g)), Tail(kinds))

KindSeqs == UNION {[1..k -> OpKinds] : k \in 1..MaxOps}

TracedGraphs ==
    {traced_graph(preamble(s0, z0, c, k0), ks) :
        s0 \in InScales, z0 \in InZeroPoints, c \in Scalars,
        k0 \in FirstKinds, ks \in KindSeqs}

\* graph.nodes() lists every node but the graph input
node_list(g) == [i \in 1..(Len(g) - 1) |-> i + 1]

NoResult == [status |-> "none", reuse |-> FALSE, top |-> "none", ir |-> <<>>]
NoRes == [status |-> "idle", node |-> 0, start |-> 0, steps |-> 0, scale |-> 0, zp |-> 0]
NoCall == [fn |-> "none", arg |-> <<>>, out |-> <<>>]

----------------------------------------------------------------------------
(* The IR and the operator conversion registry *)

\* One emitted IR call: dequantize/quantize/requantize carry (scale, zero
\* point), clip carries (min, max), an addition of a constant carries it in a.
Op(name, a, b, dtype) == [op |-> name, a |-> a, b |-> b, dtype |-> dtype]

None == <<0, 1>>

\* relay.qnn.op.quantize(data, scale, zero_point, axis=-1, out_dtype='int8'):
\* the output type of a call that passes no out_dtype.
qnn_quantize_default_out_dtype == "int8"

Ok(top, ir) == [status |-> "ok", reuse |-> FALSE, top |-> top, ir |-> ir]
Reuse(x) == [status |-> "ok", reuse |-> TRUE, top |-> x.top, ir |-> <<>>]
Raise(e) == [status |-> e, reuse |-> FALSE, top |-> "none", ir |-> <<>>]

\* inputs[k] of a conversion function, k counted from 0
In(inputs, k) == inputs[k + 1]

_quantize_per_tensor(inputs) ==
    Ok("qnn.quantize", <<Op("qnn.quantize", In(inputs, 1).v, In(inputs, 2).v, "uint8")>>)

_dequantize(inputs) ==
    IF Len(inputs) < 3 THEN Raise("IndexError")
    ELSE Ok("qnn.dequantize",
            <<Op("qnn.dequantize", In(inputs, 1).v, In(inputs, 2).v, "float32")>>)

\* the arity assertion accepting more than ten inputs
_quantized_conv2d_at_least(with_relu, inputs) ==
    IF Len(inputs) < 10 THEN Raise("AssertionError")
    ELSE LET clip_min == IF with_relu THEN In(inputs, 7).v ELSE RInt(0)
         IN  Ok("cast",
                <<Op("qnn.conv2d", In(inputs, 8).v, In(inputs, 9).v, "int32"),
                  Op("qnn.requantize", In(inputs, 6).v, In(inputs, 7).v, "int32"),
                  Op("clip", clip_min, RInt(255), "int32"),
                  Op("cast", None, None, "uint8")>>)

\* The weight, bias and padding come from the packed parameters and the
\* attributes, which the graph model does not carry; the calls that depend on
\* the quantization operands are kept.
_quantized_conv2d(with_relu, inputs) ==
    IF Len(inputs) # 10 THEN Raise("AssertionError")
    ELSE LET clip_min == IF with_relu THEN In(inputs, 7).v ELSE RInt(0)
         IN  Ok("cast",
                <<Op("qnn.conv2d", In(inputs, 8).v, In(inputs, 9).v, "int32"),
                  Op("qnn.requantize", In(inputs, 6).v, In(inputs, 7).v, "int32"),
                  Op("clip", clip_min, RInt(255), "int32"),
                  Op("cast", None, None, "uint8")>>)

binop_operand(x, scale, zero_point) ==
    IF x.top = "qnn.quantize" THEN <<>>
    ELSE <<Op("qnn.dequantize", scale, zero_point, "float32")>>

_binop(relay_op, with_relu, inputs) ==
    IF Len(inputs) # 8 THEN Raise("AssertionError")
    ELSE Ok("qnn.quantize",
            binop_operand(In(inputs, 0), In(inputs, 4).v, In(inputs, 5).v)
            \o binop_operand(In(inputs, 1), In(inputs, 6).v, In(inputs, 7).v)
            \o <<Op(relay_op, None, None, "float32")>>
            \o (IF with_relu THEN <<Op("nn.relu", None, None, "float32")>> ELSE <<>>)
            \o <<Op("qnn.quantize", In(inputs, 2).v, In(inputs, 3).v, "uint8")>>)

_linear(with_relu, inputs) ==
    IF Len(inputs) # 6 THEN Raise("AssertionError")
    ELSE LET clip_min == IF with_relu THEN In(inputs, 3).v ELSE RInt(0)
         IN  Ok("cast",
                <<Op("qnn.dense", In(inputs, 4).v, In(inputs, 5).v, "int32"),
                  Op("qnn.requantize", In(inputs, 2).v, In(inputs, 3).v, "int32"),
                  Op("clip", clip_min, RInt(255), "int32"),
                  Op("cast", None, None, "uint8")>>)

_cat(inputs) ==
    LET num_inputs == (Len(inputs) - 4) \div 2
    IN  IF num_inputs > Len(In(inputs, 0).items) THEN Raise("IndexError")
        ELSE Ok("qnn.quantize",
                [i \in 1..num_inputs |->
                    Op("qnn.dequantize", In(inputs, 4 + (i - 1) * 2).v,
                       In(inputs, 4 + (i - 1) * 2 + 1).v, "float32")]
                \o <<Op("concatenate", None, None, "float32"),
                     Op("qnn.quantize", In(inputs, 2).v, In(inputs, 3).v,
                        qnn_quantize_default_out_dtype)>>)

\* the input scale read at the index of the output scale
_add_scalar_out_scale(inputs) ==
    IF Len(inputs) # 6 THEN Raise("AssertionError")
    ELSE LET s == In(inputs, 2).v
             z == In(inputs, 5).v[1]
             c == In(inputs, 1).v
             c_q == PyRound(RDiv(c, s))
         IN  IF q_min > z - c_q \/ q_max < z - c_q
             THEN Ok("qnn.quantize",
                     <<Op("qnn.dequantize", s, RInt(z), "float32"),
                       Op("add", RMul(RInt(c_q), s), None, "float32"),
                       Op("qnn.quantize", In(inputs, 2).v, In(inputs, 3).v, "uint8")>>)
             ELSE Reuse(In(inputs, 0))

_add_scalar(inputs) ==
    IF Len(inputs) # 6 THEN Raise("AssertionError")
    ELSE LET s == In(inputs, 4).v
             z == In(inputs, 5).v[1]
             c == In(inputs, 1).v
             c_q == PyRound(RDiv(c, s))
         IN  IF q_min > z - c_q \/ q_max < z - c_q
             THEN Ok("qnn.quantize",
                     <<Op("qnn.dequantize", s, RInt(z), "float32"),
                       Op("add", RMul(RInt(c_q), s), None, "float32"),
                       Op("qnn.quantize", In(inputs, 2).v, In(inputs, 3).v, "uint8")>>)
             ELSE Reuse(In(inputs, 0))

\* util.identity(): the conversion of quantized::mul_scalar, "only scale change"
identity(inputs) == Reuse(In(inputs, 0))

quantize_scalar(data, scale, zero_point) ==
    LET r == PyRound(RAdd(RInt(zero_point), RDiv(data, scale)))
        m == IF r < 255 THEN r ELSE 255
    IN  IF 0 > m THEN 0 ELSE m

_relu6(inputs) ==
    IF Len(inputs) # 4 THEN Raise("AssertionError")
    ELSE LET input_scale == In(inputs, 2).v
             input_zero_point == In(inputs, 3).v[1]
             six == quantize_scalar(RInt(6), input_scale, input_zero_point)
         IN  Ok("clip", <<Op("clip", RInt(input_zero_point), RInt(six), "uint8")>>)

ConvertKinds ==
    {"aten::quantize_per_tensor", "quantized::conv2d_relu", "aten::dequantize",
     "quantized::conv2d", "quantized::add_relu", "quantized::add",
     "quantized::mul_relu", "quantized::mul", "quantized::linear",
     "quantized::linear_relu", "quantized::cat", "quantized::add_scalar",
     "quantized::mul_scalar", "quantized::relu6"}

convert_map(k, inputs) ==
    CASE k = "aten::quantize_per_tensor" -> _quantize_per_tensor(inputs)
      [] k = "quantized::conv2d_relu" -> _quantized_conv2d(TRUE, inputs)
      [] k = "aten::dequantize" -> _dequantize(inputs)
      [] k = "quantized::conv2d" -> _quantized_conv2d(FALSE, inputs)
      [] k = "quantized::add_relu" -> _binop("add", TRUE, inputs)
      [] k = "quantized::add" -> _binop("add", FALSE, inputs)
      [] k = "quantized::mul_relu" -> _binop("multiply", TRUE, inputs)
      [] k = "quantized::mul" -> _binop("multiply", FALSE, inputs)
      [] k = "quantized::linear" -> _linear(FALSE, inputs)
      [] k = "quantized::linear_relu" -> _linear(TRUE, inputs)
      [] k = "quantized::cat" -> _cat(inputs)
      [] k = "quantized::add_scalar" -> _add_scalar(inputs)
      [] k = "quantized::mul_scalar" -> identity(inputs)
      [] k = "quantized::relu6" -> _relu6(inputs)

\* What a conversion function receives for the edge produced by node m: the
\* value of a constant, the items of a list, or the converted expression.
converted_value(g, cv, m) ==
    IF g[m].kind = "prim::Constant"
    THEN [v |-> g[m].value, top |-> "const", items |-> <<>>]
    ELSE IF g[m].kind = "prim::ListConstruct"
    THEN [v |-> None, top |-> "list", items |-> g[m].inputs]
    ELSE [v |-> None, top |-> IF cv[m].status = "ok" THEN cv[m].top ELSE "external",
          items |-> <<m>>]

converted_inputs(g, cv, n) ==
    [k \in 1..Len(g[n].inputs) |-> converted_value(g, cv, g[n].inputs[k])]

----------------------------------------------------------------------------
(* The conversion of one graph *)

MaxPasses == 2

Init ==
    /\ nodes \in TracedGraphs
    /\ nodes0 = nodes
    /\ order = node_list(nodes)
    /\ phase = "traced"
    /\ passes = 0
    /\ err = "none"
    /\ errNode = 0
    /\ conv = [i \in DOMAIN nodes |-> NoResult]
    /\ cpos = 0
    /\ res = NoRes
    /\ call = NoCall

\* One call of add_input_quant_params_to_op_inputs(graph).
Materialize ==
    /\ phase \in {"traced", "materialized"}
    /\ passes < MaxPasses
    /\ LET r == add_input_quant_params_to_op_inputs(nodes, order)
       IN  /\ nodes' = r.nodes
           /\ order' = r.order
           /\ conv' = [i \in DOMAIN r.nodes |-> NoResult]
           /\ IF r.status = "ok"
              THEN /\ phase' = "materialized"
                   /\ passes' = passes + 1
                   /\ UNCHANGED <<err, errNode>>
              ELSE /\ phase' = "failed"
                   /\ err' = r.status
                   /\ errNode' = r.node
                   /\ UNCHANGED passes
    /\ UNCHANGED <<nodes0, cpos, res, call>>

\* The driver converts the next node, in topological order, whose kind is in
\* the registry; a failed assertion or index ends the conversion.
ConvertNode ==
    /\ phase \in {"materialized", "converting"}
    /\ \E p \in (cpos + 1)..Len(order) :
          /\ nodes[order[p]].kind \in ConvertKinds
          /\ \A q \in (cpos + 1)..(p - 1) : nodes[order[q]].kind \notin ConvertKinds
          /\ LET n == order[p]
                 r == convert_map(nodes[n].kind, converted_inputs(nodes, conv, n))
             IN  /\ conv' = [conv EXCEPT ![n] = r]
                 /\ cpos' = p
                 /\ IF r.status = "ok"
                    THEN /\ phase' = "converting"
                         /\ UNCHANGED <<err, errNode>>
                    ELSE /\ phase' = "failed"
                         /\ err' = r.status
                         /\ errNode' = n
    /\ UNCHANGED <<nodes, order, nodes0, passes, res, call>>

Next == Materialize \/ ConvertNode

Spec == Init /\ [][Next]_vars

----------------------------------------------------------------------------
(* The packed parameter decoder *)

MaxChannels == 3

\* np.asscalar(a): the element of an array of size 1; any other size raises.
asscalar(a) ==
    IF Len(a) = 1 THEN [status |-> "ok", v |-> a[1]]
    ELSE [status |-> "ValueError", v |-> a[1]]

\* _expr.const of a Python scalar is a constant of shape ()
ScalarConst(x) == [shape |-> "scalar", data |-> <<x>>]

DecodeFailure(e) ==
    [status |-> e, scale |-> ScalarConst(0), zero_point |-> ScalarConst(0),
     has_bias |-> FALSE]

\* QuantParam.__init__(weight, bias, scale, zero_point, param_key)
QuantParam(bias, scale, zero_point) ==
    IF asscalar(scale).status # "ok" THEN DecodeFailure(asscalar(scale).status)
    ELSE IF asscalar(zero_point).status # "ok"
    THEN DecodeFailure(asscalar(zero_point).status)
    ELSE [status |-> "ok", scale |-> ScalarConst(asscalar(scale).v),
          zero_point |-> ScalarConst(asscalar(zero_point).v), has_bias |-> bias]

\* A packed blob: which unpack operator accepts it, its scheme, and the
\* quantizer's scales and zero points (one entry when per tensor).
unpack_quant_params(packed_params) ==
    IF packed_params.packing \notin {"conv2d", "linear"}
    THEN DecodeFailure("RuntimeError")
    ELSE IF packed_params.qscheme = "per_tensor_affine"
    THEN QuantParam(packed_params.bias, <<packed_params.scales[1]>>,
                    <<packed_params.zero_points[1]>>)
    ELSE QuantParam(packed_params.bias, packed_params.scales,
                    packed_params.zero_points)

PackedBlobs ==
    {[packing |-> pk, qscheme |-> "per_tensor_affine", bias |-> b,
      scales |-> <<s>>, zero_points |-> <<z>>] :
        pk \in {"conv2d", "linear", "unknown"}, b \in BOOLEAN,
        s \in {<<1, 10>>, <<1, 2>>}, z \in {0, 128}}
    \cup
    {[packing |-> pk, qscheme |-> "per_channel_affine", bias |-> b,
      scales |-> [i \in 1..ch |-> <<1, 2 * i>>], zero_points |-> [i \in 1..ch |-> z]] :
        pk \in {"conv2d", "linear", "unknown"}, b \in BOOLEAN,
        ch \in 1..MaxChannels, z \in {0, 128}}

----------------------------------------------------------------------------
(* The arithmetic of the emitted quantize and dequantize calls *)

\* std::round: to the nearest integer, ties away from zero
RoundHalfAway(a) ==
    LET f == a[1] \div a[2]
        r == a[1] - f * a[2]
    IN  IF 2 * r < a[2] THEN f
        ELSE IF 2 * r > a[2] THEN f + 1
        ELSE IF a[1] >= 0 THEN f + 1 ELSE f

dtype_min(dtype) == IF dtype = "int8" THEN -128 ELSE 0
dtype_max(dtype) == IF dtype = "int8" THEN 127 ELSE 255

\* qnn.dequantize: scale * (q - zero_point)
eval_dequantize(q, op) == RMul(op.a, RSub(RInt(q), op.b))

\* qnn.quantize: clip(round(x / scale) + zero_point, min, max of out_dtype)
eval_quantize(x, op) ==
    LET r == RoundHalfAway(RDiv(x, op.a)) + op.b[1]
        lo == dtype_min(op.dtype)
        hi == dtype_max(op.dtype)
    IN  IF r < lo THEN lo ELSE IF r > hi THEN hi ELSE r

RECURSIVE concatenate(_)
concatenate(ts) == IF ts = <<>> THEN <<>> ELSE Head(ts) \o concatenate(Tail(ts))

\* The values of the chain _cat emits, on the tensors of its input list
eval_cat(ir, tensors) ==
    LET num == Len(ir) - 2
        dequantized == [i \in 1..num |->
                          [j \in 1..Len(tensors[i]) |-> eval_dequantize(tensors[i][j], ir[i])]]
        real == concatenate(dequantized)
    IN  [j \in 1..Len(real) |-> eval_quantize(real[j], ir[Len(ir)])]

ConstValue(v) == [v |-> v, top |-> "const", items |-> <<>>]

\* The inputs of the conversion of a materialized two-tensor concatenation
cat_inputs(out_scale, out_zp, s1, z1, s2, z2) ==
    <<[v |-> None, top |-> "list", items |-> <<1, 2>>], ConstValue(<<1, 1>>),
      ConstValue(out_scale), ConstValue(RInt(out_zp)),
      ConstValue(s1), ConstValue(RInt(z1)), ConstValue(s2), ConstValue(RInt(z2))>>

----------------------------------------------------------------------------
(* Calls of the pure functions: each behaviour makes one call *)

CallScales == {<<1, 10>>, <<1, 2>>, <<3, 8>>}
CallScalars == {<<3, 1>>, <<30, 1>>, <<1, 4>>, <<200, 1>>, <<-30, 1>>}
CallZeroPoints == {0, 10}
Uint8 == 0..255

InitPure ==
    /\ nodes = <<>>
    /\ nodes0 = <<>>
    /\ order = <<>>
    /\ phase = "calls"
    /\ passes = 0
    /\ err = "none"
    /\ errNode = 0
    /\ conv = <<>>
    /\ cpos = 0
    /\ res = NoRes
    /\ call = NoCall

UnchangedGraph == UNCHANGED <<nodes, order, nodes0, phase, passes, err, errNode, conv, cpos, res>>

CallAddScalarOutput ==
    /\ phase = "calls"
    /\ call.fn = "none"
    /\ \E s \in CallScales, z \in Uint8, c \in CallScalars :
          call' = [fn |-> "get_add_scalar_output_quant_param",
                   arg |-> [scale |-> s, zero_point |-> z, scalar |-> c],
                   out |-> get_add_scalar_output_quant_param(s, z, c)]
    /\ UnchangedGraph

\* The conversion of a concatenation of the one-element tensors <<x>> and
\* <<y>>, and the values the emitted chain computes.
CallCat ==
    /\ phase = "calls"
    /\ call.fn = "none"
    /\ \E s \in CallScales, z \in CallZeroPoints, same \in BOOLEAN,
          x \in Uint8, y \in {0, 255} :
          LET s2 == IF same THEN s ELSE <<1, 5>>
              z2 == IF same THEN z ELSE 3
              r == _cat(cat_inputs(s, z, s, z, s2, z2))
          IN  call' = [fn |-> "_cat",
                       arg |-> [out |-> <<s, z>>, in1 |-> <<s, z>>, in2 |-> <<s2, z2>>,
                                tensors |-> <<<<x>>, <<y>>>>],
                       out |-> [status |-> r.status,
                                values |-> eval_cat(r.ir, <<<<x>>, <<y>>>>)]]
    /\ UnchangedGraph

CallUnpack ==
    /\ phase = "calls"
    /\ call.fn = "none"
    /\ \E b \in PackedBlobs :
          call' = [fn |-> "unpack_quant_params", arg |-> b,
                   out |-> unpack_quant_params(b)]
    /\ UnchangedGraph

NextPure == CallAddScalarOutput \/ CallCat \/ CallUnpack

SpecPure == InitPure /\ [][NextPure]_vars

----------------------------------------------------------------------------
(* One run of the Producer Resolver, one activation of dfs per step.  The  *)
(* Materializer calls the resolver on the quantized inputs of the node it  *)
(* visits, when every node before it has been visited.                     *)

\* The need-quant-context nodes a pass over the traced graph g0 reaches
visited_nodes(g0, r) ==
    {n \in DOMAIN g0 :
        /\ g0[n].kind \in need_input_quant_param
        /\ r.status = "ok" \/ n <= r.node}

InitResolve ==
    /\ \E g0 \in TracedGraphs :
          LET r == add_input_quant_params_to_op_inputs(g0, node_list(g0))
          IN  /\ nodes0 = g0
              /\ nodes = r.nodes
              /\ order = r.order
              /\ err = r.status
              /\ errNode = r.node
    /\ phase = "resolving"
    /\ passes = 0
    /\ conv = <<>>
    /\ cpos = 0
    /\ res = NoRes
    /\ call = NoCall

\* get_quant_param_for_input(input_value): dfs(input_value.node())
ResolveStart ==
    /\ phase = "resolving"
    /\ res.status = "idle"
    /\ \E n \in visited_nodes(nodes0, [status |-> err, node |-> errNode]) :
         \E i \in DOMAIN quantized_inputs(nodes0, n) :
            res' = [NoRes EXCEPT !.status = "running",
                                 !.start = quantized_inputs(nodes0, n)[i],
                                 !.node = quantized_inputs(nodes0, n)[i]]
    /\ UNCHANGED <<nodes, order, nodes0, phase, passes, err, errNode, conv, cpos, call>>

\* One activation of dfs.  The step count is capped one past the number of
\* nodes, which no walk over distinct nodes reaches.
ResolveStep ==
    /\ phase = "resolving"
    /\ res.status = "running"
    /\ res.steps <= Len(nodes)
    /\ LET s == dfsStep(nodes, res.node)
       IN  res' = IF s.tag = "recurse"
                  THEN [res EXCEPT !.node = s.node, !.steps = @ + 1]
                  ELSE [res EXCEPT !.status = s.tag, !.node = s.node,
                                   !.scale = s.scale, !.zp = s.zp]
    /\ UNCHANGED <<nodes, order, nodes0, phase, passes, err, errNode, conv, cpos, call>>

NextResolve == ResolveStart \/ ResolveStep

SpecResolve == InitResolve /\ [][NextResolve]_vars /\ WF_vars(ResolveStep)

----------------------------------------------------------------------------
(* Properties of the Producer Resolver *)

\* The nodes on the chain of first inputs that starts at node n
RECURSIVE FirstInputChain(_, _)
FirstInputChain(g, n) ==
    IF g[n].inputs = <<>> THEN {n}
    ELSE {n} \cup FirstInputChain(g, g[n].inputs[1])

InResolverTable(g, n) == g[n].kind \in DOMAIN output_quant_param_indices

ResolverOutcome ==
    /\ res.status \in {"idle", "running", "return", "NoProducer"}
    /\ res.steps < Len(nodes)
    /\ res.status = "NoProducer" =>
          /\ nodes[res.node].inputs = <<>>
          /\ res.node \in FirstInputChain(nodes, res.start)
          /\ \A m \in FirstInputChain(nodes, res.start) : ~InResolverTable(nodes, m)
    /\ res.status = "return" =>
          /\ InResolverTable(nodes, res.node)
          /\ res.scale \in DOMAIN nodes
          /\ res.zp \in DOMAIN nodes

\* C1: every run of the resolver the Materializer starts on an acyclic graph
\* ends, either returning a (scale, zero point) pair of edges or failing with
\* "no producer" at a node without inputs when no node on the chain of first
\* inputs is in the resolver table; the walk never takes as many steps as the
\* graph has nodes, so it never loops.
C1_ResolverTerminates ==
    /\ []ResolverOutcome
    /\ (res.status = "running") ~> (res.status \in {"return", "NoProducer"})

\* A run that walked two first-input edges and then found no producer.
C1_Witness == res.status = "NoProducer" /\ res.steps >= 2

----------------------------------------------------------------------------
(* Properties of the Metadata Materializer *)

\* n completed passes, and no pass failed since
PassesDone(n) == passes = n /\ (phase # "failed" \/ cpos > 0)

QuantNodes == {n \in DOMAIN nodes0 : nodes0[n].kind \in need_input_quant_param}

\* The operands a pass appends for the output of a scalar operator
OutCount(n) == IF nodes0[n].kind \in ScalarOps THEN 2 ELSE 0

\* The pairs the resolver finds in graph g for the edges qin, flattened
ResolvedPairs(g, qin) ==
    [j \in 1..(2 * Len(qin)) |->
        IF j % 2 = 1 THEN get_quant_param_for_input(g, qin[(j + 1) \div 2]).scale
        ELSE get_quant_param_for_input(g, qin[j \div 2]).zp]

IsFreshConstant(m) == m \notin DOMAIN nodes0 /\ nodes[m].kind = "prim::Constant"

\* C2: after exactly one pass every node that needs quant context has its
\* original inputs as a prefix, then (scalar operators only) two fresh
\* constants holding the output scale and zero point, then the resolved
\* (scale, zero point) pairs of its quantized inputs in input order; conv2d
\* then has 10 inputs, add/mul 8, linear 6, the scalar operators 6 and relu6 4,
\* and no conversion's arity assertion fails.
C2_MaterializedLayout ==
    PassesDone(1) =>
        \A n \in QuantNodes :
            LET old == nodes0[n].inputs
                new == nodes[n].inputs
                k == Len(old)
                o == OutCount(n)
                qin == quantized_inputs(nodes0, n)
                kind == nodes0[n].kind
            IN  /\ Len(new) = k + o + 2 * Len(qin)
                /\ SubSeq(new, 1, k) = old
                /\ o = 2 => /\ IsFreshConstant(new[k + 1])
                            /\ IsFreshConstant(new[k + 2])
                            /\ new[k + 1] # new[k + 2]
                /\ SubSeq(new, k + o + 1, Len(new)) = ResolvedPairs(nodes, qin)
                /\ kind \in {"quantized::conv2d", "quantized::conv2d_relu"} => Len(new) = 10
                /\ kind \in {"quantized::add", "quantized::add_relu",
                             "quantized::mul", "quantized::mul_relu"} => Len(new) = 8
                /\ kind \in {"quantized::linear", "quantized::linear_relu"} => Len(new) = 6
                /\ kind \in ScalarOps => Len(new) = 6
                /\ kind = "quantized::relu6" => Len(new) = 4
                /\ kind \in ConvertKinds =>
                      convert_map(kind, converted_inputs(nodes, conv, n)).status
                          # "AssertionError"

\* One pass over a scalar add followed by a binary add: the binary add's first
\* pair is the output pair the pass created for the scalar add.
C2_Witness ==
    /\ PassesDone(1)
    /\ \E n \in QuantNodes :
          /\ nodes0[n].kind = "quantized::add"
          /\ Len(nodes[n].inputs) = 8
          /\ IsFreshConstant(nodes[n].inputs[5])
          /\ nodes[n].inputs[7] = 2

\* The kinds whose conversion asserts an input count
AssertingKinds ==
    {"quantized::conv2d", "quantized::conv2d_relu", "quantized::linear",
     "quantized::linear_relu", "quantized::add", "quantized::add_relu",
     "quantized::mul", "quantized::mul_relu", "quantized::add_scalar",
     "quantized::relu6"}

AppendedTwice(n) ==
    LET old == nodes0[n].inputs
        new == nodes[n].inputs
        k == Len(old)
        o == OutCount(n)
        a == o + 2 * Len(quantized_inputs(nodes0, n))
    IN  /\ Len(new) = k + 2 * a
        /\ SubSeq(new, 1, k) = old
        /\ SubSeq(new, k + o + 1, k + a) = SubSeq(new, k + a + o + 1, k + 2 * a)
        /\ o = 2 => /\ IsFreshConstant(new[k + a + 1])
                    /\ IsFreshConstant(new[k + a + 2])
                    /\ {new[k + a + 1], new[k + a + 2]} \cap {new[k + 1], new[k + 2]} = {}

\* C3 as stated: after a second pass the conversion of every node that needs
\* quant context fails its arity assertion.
C3_Original ==
    PassesDone(2) =>
        \A n \in QuantNodes :
            /\ AppendedTwice(n)
            /\ conv[n].status # "none" => conv[n].status = "AssertionError"

\* C3 amended: a second pass appends every such node's operands again; the
\* conversion then fails its arity assertion, emitting nothing, for the kinds
\* that assert an input count, while dequantize and mul_scalar still convert
\* and concatenation fails on an index instead.
C3_SecondPassBreaksArity ==
    PassesDone(2) =>
        \A n \in QuantNodes :
            /\ AppendedTwice(n)
            /\ nodes0[n].kind \in {"quantized::conv2d", "quantized::conv2d_relu"} =>
                  Len(nodes[n].inputs) = 12
            /\ conv[n].status # "none" =>
                  /\ nodes0[n].kind \in AssertingKinds =>
                        conv[n].status = "AssertionError" /\ conv[n].ir = <<>>
                  /\ nodes0[n].kind \in {"aten::dequantize", "quantized::mul_scalar"} =>
                        conv[n].status = "ok"
                  /\ nodes0[n].kind = "quantized::cat" => conv[n].status = "IndexError"

\* A conv2d node with 12 inputs whose conversion failed its assertion.
C3_Witness ==
    /\ PassesDone(2)
    /\ \E n \in QuantNodes :
          /\ nodes0[n].kind = "quantized::conv2d"
          /\ Len(nodes[n].inputs) = 12
          /\ conv[n].status = "AssertionError"

Changed(n) == nodes[n].inputs # nodes0[n].inputs

\* C7 as stated: the pass changes the inputs of exactly the nodes of these kinds.
C7_Original ==
    PassesDone(1) =>
        \A n \in DOMAIN nodes0 :
            Changed(n) <=>
                nodes0[n].kind \in
                    {"aten::quantize_per_tensor", "aten::dequantize",
                     "quantized::conv2d", "quantized::conv2d_relu",
                     "quantized::linear", "quantized::linear_relu",
                     "quantized::add", "quantized::add_relu",
                     "quantized::mul", "quantized::mul_relu", "quantized::cat",
                     "quantized::add_scalar", "quantized::mul_scalar",
                     "quantized::relu6"}

\* C7 amended: the set has mean, relu and in-place relu as well, and does not
\* have quantize: a pass changes the inputs of exactly the nodes of these
\* sixteen kinds, and only by appending.
C7_MaterializedKinds ==
    PassesDone(1) =>
        \A n \in DOMAIN nodes0 :
            /\ Changed(n) <=>
                nodes0[n].kind \in
                    {"aten::dequantize", "aten::mean", "aten::relu", "aten::relu_",
                     "quantized::conv2d", "quantized::conv2d_relu",
                     "quantized::linear", "quantized::linear_relu",
                     "quantized::add", "quantized::add_relu",
                     "quantized::mul", "quantized::mul_relu", "quantized::cat",
                     "quantized::add_scalar", "quantized::mul_scalar",
                     "quantized::relu6"}
            /\ nodes[n].kind = nodes0[n].kind
            /\ nodes[n].value = nodes0[n].value
            /\ Len(nodes[n].inputs) >= Len(nodes0[n].inputs)
            /\ SubSeq(nodes[n].inputs, 1, Len(nodes0[n].inputs)) = nodes0[n].inputs

\* A pass that grew a mean node and a concatenation and left a quantize alone.
C7_Witness ==
    /\ PassesDone(1)
    /\ \E n, m, q \in DOMAIN nodes0 :
          /\ nodes0[n].kind = "aten::mean" /\ Changed(n)
          /\ nodes0[m].kind = "quantized::cat" /\ Changed(m)
          /\ nodes0[q].kind = "aten::quantize_per_tensor" /\ ~Changed(q)

BadScalarNodes ==
    {n \in DOMAIN nodes0 :
        /\ nodes0[n].kind \in ScalarOps
        /\ ~RPos(nodes0[nodes0[n].inputs[2]].value)}

\* C8: a pass over a graph with a scalar operator whose scalar is not positive
\* fails, at that node or before it; the node keeps its traced inputs, and
\* every constant the pass created is an operand of another node.  When the
\* node's input resolves, the failure at the node is the scalar assertion.
C8_NonPositiveScalarFailsFirst ==
    phase # "traced" =>
        \A n \in BadScalarNodes :
            /\ phase = "failed" /\ passes = 0 /\ cpos = 0
            /\ errNode \in 1..n
            /\ nodes[n].inputs = nodes0[n].inputs
            /\ \A c \in (DOMAIN nodes) \ (DOMAIN nodes0) :
                  \E m \in (DOMAIN nodes0) \ {n} :
                      \E i \in DOMAIN nodes[m].inputs : nodes[m].inputs[i] = c
            /\ errNode = n =>
                  (err = "AssertionError" <=>
                      get_quant_param_for_input(nodes, nodes0[n].inputs[1]).tag = "return")

\* The pass materialized a conv2d and then failed at a scalar add.
C8_Witness ==
    /\ phase = "failed" /\ err = "AssertionError"
    /\ errNode \in BadScalarNodes
    /\ nodes0[errNode].kind = "quantized::add_scalar"
    /\ \E m \in QuantNodes : m < errNode /\ Changed(m)

----------------------------------------------------------------------------
(* Properties of the scalar operators in the pipeline *)

\* The resolved input scale and zero point of scalar node n, and its scalar
InScale(n) == nodes[get_quant_param_for_input(nodes, nodes0[n].inputs[1]).scale].value
InZeroPoint(n) == nodes[get_quant_param_for_input(nodes, nodes0[n].inputs[1]).zp].value[1]
ScalarOf(n) == nodes0[nodes0[n].inputs[2]].value
Shift(n) == InZeroPoint(n) - PyRound(RDiv(ScalarOf(n), InScale(n)))

\* The output scale and zero point the pass appended to scalar node n
OutScaleOf(n) == nodes[nodes[n].inputs[3]].value
OutZeroPointOf(n) == nodes[nodes[n].inputs[4]].value

ConvertedAddScalars ==
    {n \in DOMAIN nodes0 :
        nodes0[n].kind = "quantized::add_scalar" /\ conv[n].status # "none"}

AddScalarChain(n, addend) ==
    <<Op("qnn.dequantize", InScale(n), RInt(InZeroPoint(n)), "float32"),
      Op("add", addend, None, "float32"),
      Op("qnn.quantize", OutScaleOf(n), OutZeroPointOf(n), "uint8")>>

AddScalarConversion(n, addend) ==
    /\ conv[n].status = "ok"
    /\ conv[n].reuse <=> Shift(n) \in 0..255
    /\ conv[n].reuse =>
          /\ conv[n].ir = <<>>
          /\ OutScaleOf(n) = InScale(n)
          /\ OutZeroPointOf(n) = RInt(Shift(n))
    /\ ~conv[n].reuse => conv[n].ir = AddScalarChain(n, addend)

\* C5 as stated: out of range, the conversion adds the scalar itself.
C5_Original ==
    PassesDone(1) =>
        \A n \in ConvertedAddScalars : AddScalarConversion(n, ScalarOf(n))

\* C5 amended: the conversion of a materialized add_scalar node returns its
\* input unchanged, emitting nothing, exactly when the shift z - c_q lies in
\* [0,255], where the pass kept the scale and set the output zero point to
\* the shift; otherwise it emits dequantize with the input pair, an addition
\* of c_q * input scale (the scalar rounded to whole input steps), and a
\* quantize to the appended output pair.
C5_AddScalarConversion ==
    PassesDone(1) =>
        \A n \in ConvertedAddScalars :
            AddScalarConversion(n,
                RMul(RInt(PyRound(RDiv(ScalarOf(n), InScale(n)))), InScale(n)))

\* An add_scalar out of range whose scalar is no whole number of input steps.
C5_Witness ==
    /\ PassesDone(1)
    /\ \E n \in ConvertedAddScalars :
          /\ ~conv[n].reuse
          /\ Len(conv[n].ir) = 3
          /\ conv[n].ir[2].a # ScalarOf(n)

\* C6: a completed pass gives every mul_scalar node the output zero point of
\* its input and the output scale input scale * scalar, and the node's
\* conversion returns its input unchanged, emitting nothing.
C6_MulScalar ==
    (passes >= 1 /\ (phase # "failed" \/ cpos > 0)) =>
        \A n \in DOMAIN nodes0 :
            nodes0[n].kind = "quantized::mul_scalar" =>
                /\ RPos(ScalarOf(n))
                /\ OutZeroPointOf(n) = RInt(InZeroPoint(n))
                /\ OutScaleOf(n) = RMul(InScale(n), ScalarOf(n))
                /\ conv[n].status # "none" =>
                      conv[n].status = "ok" /\ conv[n].reuse /\ conv[n].ir = <<>>

\* A converted mul_scalar node whose scale the pass changed.
C6_Witness ==
    /\ PassesDone(1)
    /\ \E n \in DOMAIN nodes0 :
          /\ nodes0[n].kind = "quantized::mul_scalar"
          /\ conv[n].status = "ok" /\ conv[n].reuse
          /\ OutScaleOf(n) # InScale(n)
          /\ InZeroPoint(n) = 250

----------------------------------------------------------------------------
(* Properties of the pure functions *)

IsCall(fn) == call.fn = fn

\* C4: for scale > 0, zero point z in [0,255] and scalar > 0, with
\* c_q = round(scalar / scale): the result is (scale, z - c_q) when
\* 0 <= z - c_q <= 255, zero point 0 and scale (255 - (z - c_q)) / 255 * scale
\* when z - c_q < 0, zero point 255 and scale (z - c_q) / 255 * scale when
\* z - c_q > 255; the zero point returned lies in [0,255]; scale 0.1, z 250
\* gives (0.1, 220) for scalar 3 and (305/255 * 0.1, 0) for scalar 30.
C4_AddScalarOutput ==
    (IsCall("get_add_scalar_output_quant_param")
        /\ RPos(call.arg.scale) /\ call.arg.zero_point \in 0..255
        /\ RPos(call.arg.scalar)) =>
        LET s == call.arg.scale
            z == call.arg.zero_point
            c == call.arg.scalar
            shift == z - PyRound(RDiv(c, s))
        IN  /\ shift \in 0..255 =>
                call.out = [scale |-> s, zero_point |-> shift]
            /\ shift < 0 =>
                call.out = [scale |-> RDiv(RMul(RInt(255 - shift), s), RInt(255)),
                            zero_point |-> 0]
            /\ shift > 255 =>
                call.out = [scale |-> RDiv(RMul(RInt(shift), s), RInt(255)),
                            zero_point |-> 255]
            /\ call.out.zero_point \in 0..255
            /\ RPos(call.out.scale)
            /\ (s = <<1, 10>> /\ z = 250 /\ c = <<3, 1>>) =>
                call.out = [scale |-> <<1, 10>>, zero_point |-> 220]
            /\ (s = <<1, 10>> /\ z = 250 /\ c = <<30, 1>>) =>
                call.out = [scale |-> <<61, 510>>, zero_point |-> 0]

\* The call with scale 0.1, zero point 250 and scalar 30: the shift is -50.
C4_Witness ==
    /\ IsCall("get_add_scalar_output_quant_param")
    /\ call.arg = [scale |-> <<1, 10>>, zero_point |-> 250, scalar |-> <<30, 1>>]
    /\ call.out.zero_point = 0

\* C9: when both inputs carry the output's scale and zero point, the chain the
\* concatenation conversion emits returns every input element unchanged.
C9_CatPreservesValues ==
    (IsCall("_cat") /\ call.arg.in1 = call.arg.out /\ call.arg.in2 = call.arg.out) =>
        /\ call.out.status = "ok"
        /\ call.out.values = call.arg.tensors[1] \o call.arg.tensors[2]

\* C10: decoding a blob either unpack operator accepts succeeds; a per-tensor
\* weight yields single values, a per-channel weight vectors with one entry
\* per output channel.
C10_DecodeBothSchemes ==
    (IsCall("unpack_quant_params") /\ call.arg.packing \in {"conv2d", "linear"}) =>
        /\ call.out.status = "ok"
        /\ call.arg.qscheme = "per_tensor_affine" =>
              /\ call.out.scale = ScalarConst(call.arg.scales[1])
              /\ call.out.zero_point = ScalarConst(call.arg.zero_points[1])
        /\ call.arg.qscheme = "per_channel_affine" =>
              /\ call.out.scale = [shape |-> "vector", data |-> call.arg.scales]
              /\ call.out.zero_point = [shape |-> "vector", data |-> call.arg.zero_points]

----------------------------------------------------------------------------
(* What the Producer Resolver returns *)

\* The first node on the chain of first inputs from n whose kind is in the
\* resolver table, or 0 when the chain has none
RECURSIVE FirstTableNode(_, _)
FirstTableNode(g, n) ==
    IF InResolverTable(g, n) THEN n
    ELSE IF g[n].inputs = <<>> THEN 0
    ELSE FirstTableNode(g, g[n].inputs[1])

\* Every node n depends on, through any input
RECURSIVE Ancestors(_, _)
Ancestors(g, n) ==
    {n} \cup UNION {Ancestors(g, g[n].inputs[i]) : i \in DOMAIN g[n].inputs}

\* C11: a run of the resolver only visits nodes on the chain of first inputs
\* from the edge's producer; it returns the operands at the table's (scale
\* index, zero-point index) of the first node on that chain whose kind is in
\* the table, and fails with "no producer" when the chain has none, also when
\* a node of a table kind is reachable through a later input.
C11_FirstInputChainOnly ==
    /\ res.status # "idle" => res.node \in FirstInputChain(nodes, res.start)
    /\ res.status \in {"return", "NoProducer", "IndexError"} =>
          LET f == FirstTableNode(nodes, res.start)
          IN  /\ f = 0 => res.status = "NoProducer"
              /\ f # 0 =>
                    /\ res.status = "return"
                    /\ res.node = f
                    /\ nodes[f].kind = "aten::quantize_per_tensor" =>
                          res.scale = nodes[f].inputs[2] /\ res.zp = nodes[f].inputs[3]
                    /\ nodes[f].kind \in {"quantized::conv2d", "quantized::conv2d_relu"} =>
                          res.scale = nodes[f].inputs[7] /\ res.zp = nodes[f].inputs[8]
                    /\ nodes[f].kind \notin {"aten::quantize_per_tensor",
                                            "quantized::conv2d", "quantized::conv2d_relu"} =>
                          res.scale = nodes[f].inputs[3] /\ res.zp = nodes[f].inputs[4]

\* A run that found no producer although a quantize is among the ancestors of
\* the edge, behind the second input of a node on the chain.
C11_Witness ==
    /\ res.status = "NoProducer"
    /\ \E m \in Ancestors(nodes, res.start) :
          nodes[m].kind = "aten::quantize_per_tensor"

====
